---- MODULE Spec2Model ----
(***************************************************************************)
(* A model of blog_publish.py: the text pipeline (draft stripping, embed   *)
(* rewriting, wiki-link rewriting, excerpt extraction) and the publishing  *)
(* run (freshness gate, destination writes, the driver's enumeration).     *)
(*                                                                         *)
(* A Python str is a sequence of one-character strings.  An Optional value *)
(* is <<>> (None) or <<v>>.                                                *)
(***************************************************************************)
EXTENDS Integers, Sequences, FiniteSets, TLC

NoneV == <<>>
Some(v) == <<v>>

(***************************************************************************)
(* str helpers                                                             *)
(***************************************************************************)
Whitespace == {" ", "\n", "\t"}
Digits == {"0", "1", "2", "3", "4", "5", "6", "7", "8", "9"}

CharAt(t, k) == IF k >= 1 /\ k <= Len(t) THEN t[k] ELSE ""

Max(S) == CHOOSE k \in S : \A j \in S : j <= k
Min(S) == CHOOSE k \in S : \A j \in S : k <= j

\* the positions of s that hold no whitespace
Inked(s) == {k \in 1..Len(s) : s[k] \notin Whitespace}

lstrip(s) == IF Inked(s) = {} THEN <<>> ELSE SubSeq(s, Min(Inked(s)), Len(s))

rstrip(s) == IF Inked(s) = {} THEN <<>> ELSE SubSeq(s, 1, Max(Inked(s)))

strip(s) == rstrip(lstrip(s))

isdigit(s) == s # <<>> /\ \A k \in 1..Len(s) : s[k] \in Digits

\* str.lower on the letters the model's texts use
lower(c) ==
    CASE c = "A" -> "a" [] c = "B" -> "b" [] c = "D" -> "d" [] c = "F" -> "f"
      [] c = "R" -> "r" [] c = "T" -> "t" [] OTHER -> c

\* s.replace(old, new) for one-character old and new
replace(s, old, new) ==
    SubSeq([k \in 1..Len(s) |-> IF s[k] = old THEN new ELSE s[k]], 1, Len(s))

lowerstr(s) == SubSeq([k \in 1..Len(s) |-> lower(s[k])], 1, Len(s))

\* the literal lit stands at position i of t, compared case-insensitively
MatchesAtI(t, i, lit) ==
    /\ i + Len(lit) - 1 <= Len(t)
    /\ \A k \in 1..Len(lit) : lower(t[i + k - 1]) = lit[k]

\* last index of the run of characters outside stop that starts at s (s-1: empty)
RunEnd(t, s, stop) ==
    LET stops == {k \in s..Len(t) : t[k] \in stop}
    IN IF s > Len(t) THEN s - 1
       ELSE IF stops = {} THEN Len(t)
       ELSE Min(stops) - 1

(***************************************************************************)
(* CONFIG                                                                  *)
(***************************************************************************)
\* "/" + DEST_IMG_DIR.relative_to(DEST_MD_DIR.parent) + "/"
REL_IMG_DIR == <<"/", "i", "m", "a", "g", "e", "s", "/">>

DEFAULT_TITLE_IMAGE ==
    REL_IMG_DIR \o <<"d", "e", "f", "a", "u", "l", "t", "_", "t", "i", "t", "l", "e", "_",
                     "i", "m", "a", "g", "e", ".", "p", "n", "g">>

(***************************************************************************)
(* DRAFT_PATTERN = <--draft-->[\s\S]*?<\\/?--draft-->  (IGNORECASE)        *)
(***************************************************************************)
DRAFT_OPEN == <<"<", "-", "-", "d", "r", "a", "f", "t", "-", "-", ">">>
DRAFT_TAIL == <<"-", "-", "d", "r", "a", "f", "t", "-", "-", ">">>

\* index of the last character of a closing delimiter that starts at j, or 0
DraftCloseAt(t, j) ==
    IF ~(CharAt(t, j) = "<" /\ CharAt(t, j + 1) = "\\") THEN 0
    ELSE IF CharAt(t, j + 2) = "/" /\ MatchesAtI(t, j + 3, DRAFT_TAIL)
         THEN j + 2 + Len(DRAFT_TAIL)
    ELSE IF MatchesAtI(t, j + 2, DRAFT_TAIL) THEN j + 1 + Len(DRAFT_TAIL)
    ELSE 0

\* the nearest closing delimiter starting at or after j (the lazy [\s\S]*?)
DraftCloseFrom(t, j) ==
    LET closes == {k \in j..Len(t) : DraftCloseAt(t, k) # 0}
    IN IF closes = {} THEN 0 ELSE DraftCloseAt(t, Min(closes))

\* index of the last character of the match of DRAFT_PATTERN at i, or 0
DRAFT_PATTERN_match(t, i) ==
    IF MatchesAtI(t, i, DRAFT_OPEN) THEN DraftCloseFrom(t, i + Len(DRAFT_OPEN)) ELSE 0

\* DRAFT_PATTERN.sub("", t) from position i on: the leftmost match is cut
\* out and the scan goes on behind it
RECURSIVE DRAFT_PATTERN_sub(_, _)
DRAFT_PATTERN_sub(t, i) ==
    LET starts == {k \in i..Len(t) : DRAFT_PATTERN_match(t, k) # 0}
    IN IF starts = {} THEN SubSeq(t, i, Len(t))
       ELSE SubSeq(t, i, Min(starts) - 1)
            \o DRAFT_PATTERN_sub(t, DRAFT_PATTERN_match(t, Min(starts)) + 1)

(***************************************************************************)
(* IMAGE_PATTERN    = !\[\[([^\]|]+)(?:\|([^\]]+))?\]\]                     *)
(* WIKILINK_PATTERN =   \[\[([^|\]]+)(?:\|([^\]]+))?\]\]                    *)
(***************************************************************************)
NoMatch == [ok |-> FALSE, g1 |-> <<>>, has2 |-> FALSE, g2 |-> <<>>, end |-> 0]

\* the match of \[\[([^\]|]+)(?:\|([^\]]+))?\]\] whose "[[" stands at i
WIKILINK_PATTERN_match(t, i) ==
    LET g1s == i + 2
        g1e == RunEnd(t, g1s, {"]", "|"})
        g2s == g1e + 2
        g2e == RunEnd(t, g2s, {"]"})
    IN IF ~(CharAt(t, i) = "[" /\ CharAt(t, i + 1) = "[" /\ g1e >= g1s) THEN NoMatch
       ELSE IF /\ CharAt(t, g1e + 1) = "|" /\ g2e >= g2s
               /\ CharAt(t, g2e + 1) = "]" /\ CharAt(t, g2e + 2) = "]"
            THEN [ok |-> TRUE, g1 |-> SubSeq(t, g1s, g1e), has2 |-> TRUE,
                  g2 |-> SubSeq(t, g2s, g2e), end |-> g2e + 2]
       ELSE IF CharAt(t, g1e + 1) = "]" /\ CharAt(t, g1e + 2) = "]"
            THEN [ok |-> TRUE, g1 |-> SubSeq(t, g1s, g1e), has2 |-> FALSE,
                  g2 |-> <<>>, end |-> g1e + 2]
       ELSE NoMatch

IMAGE_PATTERN_match(t, i) ==
    IF CharAt(t, i) = "!" THEN WIKILINK_PATTERN_match(t, i + 1) ELSE NoMatch

(***************************************************************************)
(* extract_and_copy_image: store is the set of names under SOURCE_IMG_DIR. *)
(* The empty name is SOURCE_IMG_DIR itself, which exists and which         *)
(* shutil.copy2 refuses (IsADirectoryError).                               *)
(***************************************************************************)
extract_and_copy_image(img_name, store) ==
    IF img_name = <<>> THEN [ret |-> NoneV, copied |-> {}, err |-> TRUE]
    ELSE IF img_name \notin store THEN [ret |-> NoneV, copied |-> {}, err |-> FALSE]
    ELSE [ret |-> Some(REL_IMG_DIR \o img_name), copied |-> {img_name}, err |-> FALSE]

WidthSuffix(size_spec) ==
    <<"{", ":", " ", "w", "i", "d", "t", "h", "=", "\"">> \o size_spec \o <<"\"", " ", "}">>

truthy(opt) == opt # NoneV /\ opt[1] # <<>>

\* first_image_path after one call of _img_repl that resolved new_path
FirstImageUpdateLast(first, new_path) == IF truthy(new_path) THEN new_path ELSE first

FirstImageUpdate(first, new_path) ==
    IF truthy(new_path) /\ first = NoneV THEN new_path ELSE first

\* one call of _img_repl on the match m, whose text is whole; acc is the
\* output so far with the closure's first_image_path
img_repl(whole, m, acc, store) ==
    LET img_name == strip(m.g1)
        size_spec == m.g2
        r == extract_and_copy_image(img_name, store)
        new_path == r.ret
        plain == <<"!", "[">> \o img_name \o <<"]", "(">>
                 \o (IF new_path = NoneV THEN <<>> ELSE new_path[1]) \o <<")">>
        text == IF new_path = NoneV THEN whole
                ELSE IF m.has2 /\ isdigit(size_spec) THEN plain \o WidthSuffix(size_spec)
                ELSE plain
    IN [body |-> acc.body \o text,
        first |-> FirstImageUpdate(acc.first, new_path),
        copied |-> acc.copied \cup r.copied,
        err |-> r.err]

\* IMAGE_PATTERN.sub(_img_repl, t) from position i on, leftmost match
\* first; an exception ends it
RECURSIVE IMAGE_PATTERN_sub(_, _, _, _)
IMAGE_PATTERN_sub(t, i, acc, store) ==
    LET starts == {k \in i..Len(t) : IMAGE_PATTERN_match(t, k).ok}
        s == Min(starts)
        m == IMAGE_PATTERN_match(t, s)
    IN IF acc.err THEN acc
       ELSE IF starts = {} THEN [acc EXCEPT !.body = @ \o SubSeq(t, i, Len(t))]
       ELSE IMAGE_PATTERN_sub(t, m.end + 1,
                img_repl(SubSeq(t, s, m.end), m,
                         [acc EXCEPT !.body = @ \o SubSeq(t, i, s - 1)], store),
                store)

\* WIKILINK_REPLACEMENTS.get(page, page)
TableGet(table, page) == IF page \in DOMAIN table THEN table[page] ELSE page

wiki_repl(m, table) ==
    LET page == strip(m.g1)
        display == m.g2
    IN IF m.has2 THEN strip(display) ELSE TableGet(table, page)

\* WIKILINK_PATTERN.sub(_wiki_repl, t) from position i on
RECURSIVE WIKILINK_PATTERN_sub(_, _, _)
WIKILINK_PATTERN_sub(t, i, table) ==
    LET starts == {k \in i..Len(t) : WIKILINK_PATTERN_match(t, k).ok}
        s == Min(starts)
        m == WIKILINK_PATTERN_match(t, s)
    IN IF starts = {} THEN SubSeq(t, i, Len(t))
       ELSE SubSeq(t, i, s - 1) \o wiki_repl(m, table)
            \o WIKILINK_PATTERN_sub(t, m.end + 1, table)

\* transform_content: (clean_body, first_valid_image_path), the assets it
\* copied, and whether it raised; stripped and imaged are body after its
\* steps 0 and 1
transform_content(body, store, table) ==
    LET images(stripped) ==
            IMAGE_PATTERN_sub(stripped, 1,
                [body |-> <<>>, first |-> NoneV, copied |-> {}, err |-> FALSE], store)
        wikilinks(stripped, img) ==
            [body |-> IF img.err THEN <<>> ELSE WIKILINK_PATTERN_sub(img.body, 1, table),
             first |-> img.first, copied |-> img.copied, err |-> img.err,
             stripped |-> stripped, imaged |-> img.body]
        steps(stripped) == wikilinks(stripped, images(stripped))
    IN steps(DRAFT_PATTERN_sub(body, 1))

(***************************************************************************)
(* extract_excerpt and _sentence_clip                                      *)
(***************************************************************************)
\* str.splitlines on "\n"
RECURSIVE splitlines(_)
splitlines(s) ==
    LET breaks == {k \in 1..Len(s) : s[k] = "\n"}
    IN IF s = <<>> THEN <<>>
       ELSE IF breaks = {} THEN <<s>>
       ELSE <<SubSeq(s, 1, Min(breaks) - 1)>> \o splitlines(SubSeq(s, Min(breaks) + 1, Len(s)))

startswith(s, prefix) == Len(s) >= Len(prefix) /\ SubSeq(s, 1, Len(prefix)) = prefix

\* ' '.join(lines)
RECURSIVE join(_)
join(lines) ==
    IF lines = <<>> THEN <<>>
    ELSE IF Len(lines) = 1 THEN lines[1]
    ELSE lines[1] \o <<" ">> \o join(Tail(lines))

\* rfind with the end of the slice one too far
rfindInclusive(text, c, start, end) ==
    LET hits == {k \in start..end : k < Len(text) /\ text[k + 1] = c}
    IN IF hits = {} THEN -1 ELSE CHOOSE k \in hits : \A j \in hits : j <= k

\* text.rfind(c, start, end): 0-based index of the last c in text[start:end], or -1
rfind(text, c, start, end) ==
    LET hits == {k \in start..(end - 1) : k < Len(text) /\ text[k + 1] = c}
    IN IF hits = {} THEN -1 ELSE CHOOSE k \in hits : \A j \in hits : j <= k

\* text[:n]
Prefix(text, n) == SubSeq(text, 1, IF n < Len(text) THEN n ELSE Len(text))

sentence_clip(text, limit) ==
    IF limit = NoneV \/ Len(text) <= limit[1] THEN text
    ELSE LET cutoff == rfind(text, ".", 0, limit[1])
         IN rstrip(IF cutoff # -1 THEN Prefix(text, cutoff + 1) ELSE Prefix(text, limit[1]))

\* the for loop of extract_excerpt over the remaining lines; st.stop is the break
RECURSIVE ExcerptLoop(_, _)
ExcerptLoop(lines, st) ==
    IF lines = <<>> THEN st
    ELSE LET stripped == strip(Head(lines))
         IN IF stripped = <<>>
            THEN IF st.in_para /\ st.para_lines # <<>> THEN st
                 ELSE ExcerptLoop(Tail(lines), st)
            ELSE IF startswith(stripped, <<"#">>) \/ startswith(stripped, <<"!", "[">>)
                 THEN ExcerptLoop(Tail(lines), st)
            ELSE ExcerptLoop(Tail(lines),
                             [in_para |-> TRUE, para_lines |-> Append(st.para_lines, stripped)])

\* the paragraph extract_excerpt assembles
paragraph(markdown_body) ==
    strip(join(ExcerptLoop(splitlines(markdown_body),
                           [in_para |-> FALSE, para_lines |-> <<>>]).para_lines))

extract_excerpt(markdown_body, limit) == sentence_clip(paragraph(markdown_body), limit)

(***************************************************************************)
(* process_file, lines 168-172: the transformed body with its title-image  *)
(* and excerpt.                                                            *)
(***************************************************************************)
TitleImage(first_img) == IF truthy(first_img) THEN first_img[1] ELSE DEFAULT_TITLE_IMAGE

Render(content, store, table, limit) ==
    LET fields(tc) ==
            [err |-> tc.err,
             stripped |-> tc.stripped,
             imaged |-> tc.imaged,
             body |-> tc.body,
             first_img |-> tc.first,
             copied |-> tc.copied,
             title_image |-> IF tc.err THEN <<>> ELSE TitleImage(tc.first),
             excerpt |-> IF tc.err THEN <<>> ELSE extract_excerpt(tc.body, limit)]
    IN fields(transform_content(content, store, table))

(***************************************************************************)
(* Dates.  A day is rendered by two characters (the model's %Y-%m-%d) and  *)
(* a time of day by two more (the model's %H:%M).                          *)
(***************************************************************************)
DigitChars == <<"0", "1", "2", "3", "4", "5", "6", "7", "8", "9">>

TicksPerDay == 2

DayStr(day) == <<"D", DigitChars[(day % 10) + 1]>>
TimeStr(tick) == <<"h", DigitChars[(tick % 10) + 1]>>

\* datetime.now().strftime("%Y-%m-%d %H:%M") at clock value now
NowStr(now) == DayStr(now \div TicksPerDay) \o <<" ">> \o TimeStr(now % TicksPerDay)

\* raw_date: what frontmatter gives for the date key
normalise_date(raw_date, now) ==
    IF raw_date.type = "datetime"
    THEN DayStr(raw_date.day) \o <<" ">> \o TimeStr(raw_date.tick)
    ELSE IF raw_date.type = "date" THEN DayStr(raw_date.day)
    ELSE IF raw_date.type = "str" /\ strip(raw_date.text) # <<>> THEN strip(raw_date.text)
    ELSE NowStr(now)

\* s.split()[0] of a text that has a token
FirstToken(s) ==
    LET t == lstrip(s) IN SubSeq(t, 1, RunEnd(t, 1, Whitespace))

(***************************************************************************)
(* Path.glob(pattern) on the names of one directory (fnmatch; the names of *)
(* the model hold no range x-y inside brackets)                            *)
(***************************************************************************)
\* index of the "]" that closes the class opened at pat[1] = "[", or 0
ClassClose(pat) ==
    LET from == IF CharAt(pat, 2) = "!" THEN 3 ELSE 2
        start == IF CharAt(pat, from) = "]" THEN from + 1 ELSE from
        e == RunEnd(pat, start, {"]"})
    IN IF e + 1 <= Len(pat) THEN e + 1 ELSE 0

InClass(c, pat, close) ==
    IF CharAt(pat, 2) = "!" THEN \A k \in 3..(close - 1) : pat[k] # c
    ELSE \E k \in 2..(close - 1) : pat[k] = c

RECURSIVE fnmatch(_, _)
fnmatch(name, pat) ==
    IF pat = <<>> THEN name = <<>>
    ELSE IF Head(pat) = "*"
         THEN fnmatch(name, Tail(pat)) \/ (name # <<>> /\ fnmatch(Tail(name), pat))
    ELSE IF name = <<>> THEN FALSE
    ELSE IF Head(pat) = "?" THEN fnmatch(Tail(name), Tail(pat))
    ELSE IF Head(pat) = "[" /\ ClassClose(pat) # 0
         THEN /\ InClass(Head(name), pat, ClassClose(pat))
              /\ fnmatch(Tail(name), SubSeq(pat, ClassClose(pat) + 1, Len(pat)))
    ELSE Head(pat) = Head(name) /\ fnmatch(Tail(name), Tail(pat))

MD == <<".", "m", "d">>

(***************************************************************************)
(* State                                                                   *)
(***************************************************************************)
VARIABLES
    body,                   \* post.content of the document being rendered
    rendered,               \* None, or what lines 168-172 made of body
    SOURCE_IMG,             \* the names under SOURCE_IMG_DIR
    WIKILINK_REPLACEMENTS,  \* the substitution table
    EXCERPT_MAX,            \* Optional[int]
    src,                    \* SOURCE_MD_DIR: stem -> [mtime, kind, date]
    dest,                   \* DEST_MD_DIR: file name -> [mtime, content, by]
    destImg,                \* the names under DEST_IMG_DIR
    clock,                  \* the time
    pc,                     \* main: "idle", "running", "rerunning", "done", "aborted"
    todo,                   \* the documents main's loop has still to reach
    last                    \* the last call of process_file in this run

config == <<SOURCE_IMG, WIKILINK_REPLACEMENTS, EXCERPT_MAX>>
textVars == <<body, rendered>>
runVars == <<src, dest, destImg, clock, pc, todo, last>>
vars == <<body, rendered, SOURCE_IMG, WIKILINK_REPLACEMENTS, EXCERPT_MAX,
          src, dest, destImg, clock, pc, todo, last>>

(***************************************************************************)
(* The source documents of the run                                         *)
(***************************************************************************)
MaxClock == 2

DOC_B == <<"b">>
DOC_A_B == <<"a", " ", "b">>
DOC_CLS == <<"a", "[", "b", "]">>
DOC_C == <<"c">>

\* the values of the date key: a datetime, a date, a text, none
DATE_TIME == [type |-> "datetime", day |-> 7, tick |-> 1]
DATE_ONLY == [type |-> "date", day |-> 7]
DATE_TEXT == [type |-> "str", text |-> <<" ", "M", "a", "r", " ", "5">>]
DATE_NONE == [type |-> "none"]

DateShapes == {DATE_TIME, DATE_ONLY, DATE_TEXT, DATE_NONE}

\* post.content
DocBody(d) ==
    CASE d = DOC_B -> <<"!", "[", "[", "a", "]", "]", "\n", "x", ".">>
      [] d = DOC_CLS -> <<"[", "[", "p", "]", "]">>
      [] OTHER -> <<"x">>

NoCall == [doc |-> <<>>, outcome |-> "none", had_match |-> FALSE,
           dest_filename |-> NoneV, copied |-> {}]

(***************************************************************************)
(* most_recent_dest and process_file                                       *)
(***************************************************************************)
\* md_path.stem.replace(" ", "-").lower()
slug_of(stem) == lowerstr(replace(stem, " ", "-"))

\* DEST_MD_DIR.glob(f"*-{slug}.md")
candidates(slug, dir) == {f \in DOMAIN dir : fnmatch(f, <<"*", "-">> \o slug \o MD)}

\* the candidates max(..., key=st_mtime) may return
most_recent_dest(slug, dir) ==
    {f \in candidates(slug, dir) : \A g \in candidates(slug, dir) : dir[g].mtime <= dir[f].mtime}

\* md_path.stat().st_mtime < latest_dest.stat().st_mtime
UpToDateStrict(src_mtime, latest_mtime) == src_mtime < latest_mtime

\* md_path.stat().st_mtime <= latest_dest.stat().st_mtime
UpToDate(src_mtime, latest_mtime) == src_mtime <= latest_mtime

\* the filename dated with the day of the run, whatever the date field
DestFilenameToday(d, raw_date, now) ==
    FirstToken(NowStr(now)) \o <<"-">> \o slug_of(d) \o MD

\* f"{date_str}-{slug}.md", date_str the first token of the normalised date
DestFilename(d, raw_date, now) ==
    FirstToken(normalise_date(raw_date, now)) \o <<"-">> \o slug_of(d) \o MD

\* the post process_file writes for d at time now
NewPost(d, raw_date, now, store, table, limit) ==
    LET post(r) == [date |-> normalise_date(raw_date, now), title_image |-> r.title_image,
                    excerpt |-> r.excerpt, body |-> r.body]
    IN post(Render(DocBody(d), store, table, limit))

\* one call of process_file(d) at time now: its outcome and the two stores after it
process_file(d, source, dir, imgdir, now, store, table, limit) ==
    LET quiet == [outcome |-> "error", dest |-> dir, destImg |-> imgdir,
                  had_match |-> FALSE, dest_filename |-> NoneV, copied |-> {}]
        \* lines 168-182, r what lines 168-172 made of the body
        publish(latest_dest, r, new_post, dest_filename) ==
            IF r.err
            THEN [quiet EXCEPT !.destImg = imgdir \cup r.copied, !.copied = r.copied,
                               !.had_match = (latest_dest # {})]
            ELSE [outcome |-> "written",
                  dest |-> (dest_filename :> [mtime |-> now, by |-> d, content |-> new_post])
                           @@ dir,
                  destImg |-> imgdir \cup r.copied,
                  had_match |-> (latest_dest # {}),
                  dest_filename |-> Some(dest_filename),
                  copied |-> r.copied]
        \* lines 163-166
        fresh(latest_dest) ==
            IF /\ latest_dest # {}
               /\ \E f \in latest_dest : UpToDate(source[d].mtime, dir[f].mtime)
            THEN [quiet EXCEPT !.outcome = "skipped", !.had_match = TRUE]
            ELSE publish(latest_dest, Render(DocBody(d), store, table, limit),
                         NewPost(d, source[d].date, now, store, table, limit),
                         DestFilename(d, source[d].date, now))
    IN IF source[d].kind = "bad" THEN quiet
       ELSE IF source[d].kind # "blog" THEN [quiet EXCEPT !.outcome = "untagged"]
       ELSE fresh(most_recent_dest(slug_of(d), dir))

(***************************************************************************)
(* main and its environment                                                *)
(***************************************************************************)
\* main(): the enumeration starts; rglob yields the documents in any order
StartRun ==
    /\ pc \in {"idle", "done", "aborted"}
    /\ pc' = IF pc = "done" THEN "rerunning" ELSE "running"
    /\ todo' = DOMAIN src
    /\ last' = NoCall
    /\ UNCHANGED <<src, dest, destImg, clock, config, textVars>>

\* one iteration of main's loop; an exception leaves main
ProcessFile(d) ==
    /\ pc \in {"running", "rerunning"}
    /\ d \in todo
    /\ \E r \in {process_file(d, src, dest, destImg, clock,
                              SOURCE_IMG, WIKILINK_REPLACEMENTS, EXCERPT_MAX)} :
          /\ dest' = r.dest
          /\ destImg' = r.destImg
          /\ last' = [doc |-> d, outcome |-> r.outcome, had_match |-> r.had_match,
                      dest_filename |-> r.dest_filename, copied |-> r.copied]
          /\ todo' = todo \ {d}
          /\ pc' = IF r.outcome = "error" THEN "aborted"
                   ELSE IF todo \ {d} = {} THEN "done" ELSE pc
    /\ UNCHANGED <<src, clock, config, textVars>>

\* the author saves a tagged note between two runs
Touch(d) ==
    /\ pc \in {"idle", "done", "aborted"}
    /\ src[d].kind = "blog"
    /\ src[d].mtime < clock
    /\ src' = [src EXCEPT ![d].mtime = clock]
    /\ pc' = IF pc = "done" THEN "idle" ELSE pc
    /\ UNCHANGED <<dest, destImg, clock, todo, last, config, textVars>>

\* the author breaks or repairs the metadata block of the untagged note
EditMetadata ==
    /\ pc \in {"idle", "done", "aborted"}
    /\ src' = [src EXCEPT ![DOC_C].kind = IF @ = "bad" THEN "other" ELSE "bad"]
    /\ pc' = IF pc = "done" THEN "idle" ELSE pc
    /\ UNCHANGED <<dest, destImg, clock, todo, last, config, textVars>>

Tick ==
    /\ clock < MaxClock
    /\ clock' = clock + 1
    /\ UNCHANGED <<src, dest, destImg, pc, todo, last, config, textVars>>

Note(kind, date) == [mtime |-> 0, kind |-> kind, date |-> date]

InitStores ==
    /\ dest = <<>>
    /\ destImg = {}
    /\ clock = 0
    /\ pc = "idle"
    /\ todo = {}
    /\ last = NoCall

\* the notes of the run: b, "a b" (whose output name ends with that of b),
\* a[b] (a name fnmatch reads as a pattern) and an untagged note c
Notes ==
    (DOC_B :> Note("blog", DATE_NONE)) @@ (DOC_A_B :> Note("blog", DATE_TIME))
    @@ (DOC_CLS :> Note("blog", DATE_TEXT)) @@ (DOC_C :> Note("other", DATE_NONE))

Init ==
    /\ body = <<>>
    /\ rendered = NoneV
    /\ SOURCE_IMG = {<<"a">>}
    /\ WIKILINK_REPLACEMENTS = <<>>
    /\ EXCERPT_MAX = Some(500)
    /\ src = Notes
    /\ InitStores

Next ==
    \/ StartRun
    \/ \E d \in DOMAIN src : ProcessFile(d)
    \/ \E d \in DOMAIN src : Touch(d)
    \/ EditMetadata
    \/ Tick

Spec == Init /\ [][Next]_vars

\* two tagged notes with every pair of date values; no metadata block is broken
InitDates ==
    /\ body = <<>>
    /\ rendered = NoneV
    /\ SOURCE_IMG = {<<"a">>}
    /\ WIKILINK_REPLACEMENTS = <<>>
    /\ EXCERPT_MAX = Some(500)
    /\ \E d1, d2 \in DateShapes :
           src = (DOC_B :> Note("blog", d1)) @@ (DOC_A_B :> Note("blog", d2))
    /\ InitStores

NextDates ==
    \/ StartRun
    \/ \E d \in DOMAIN src : ProcessFile(d)
    \/ \E d \in DOMAIN src : Touch(d)
    \/ Tick

SpecDates == InitDates /\ [][NextDates]_vars

\* main's loop over the documents in the order rglob yields them, from the
\* stores of fs; an exception ends the loop
RECURSIVE main(_, _)
main(order, fs) ==
    IF order = <<>> \/ fs.aborted THEN fs
    ELSE LET d == Head(order)
             r == process_file(d, src, fs.dest, fs.destImg, clock,
                               SOURCE_IMG, WIKILINK_REPLACEMENTS, EXCERPT_MAX)
         IN main(Tail(order),
                 [dest |-> r.dest, destImg |-> r.destImg,
                  written |-> fs.written \cup (IF r.outcome = "written" THEN {d} ELSE {}),
                  skipped |-> fs.skipped \cup (IF r.outcome = "skipped" THEN {d} ELSE {}),
                  aborted |-> r.outcome = "error"])

(***************************************************************************)
(* The text pipeline on its own: lines 168-172 of process_file applied to  *)
(* one body                                                                *)
(***************************************************************************)
MaxSegs == 3
MaxMarkers == 3
MaxLen == 5
MaxLimit == 3

RECURSIVE Concat(_)
Concat(ss) == IF ss = <<>> THEN <<>> ELSE Head(ss) \o Concat(Tail(ss))

Bodies(segs, n) == {Concat(ss) : ss \in UNION {[1..k -> segs] : k \in 0..n}}

IMG_A == <<"!", "[", "[", "a", "]", "]">>
IMG_B5 == <<"!", "[", "[", "b", "|", "5", "]", "]">>
IMG_CW == <<"!", "[", "[", " ", "c", "|", "w", "]", "]">>
IMG_EMPTY == <<"!", "[", "[", " ", "]", "]">>
LINK_P == <<"[", "[", "p", "]", "]">>
LINK_PD == <<"[", "[", "p", "|", " ", "d", " ", "]", "]">>
DOC_DRAFT_OPEN == <<"<", "d", "r", "a", "f", "t", ">">>
DOC_DRAFT_CLOSE == <<"<", "/", "d", "r", "a", "f", "t", ">">>
DOC_DRAFT_CLOSE2 == <<"<", "\\", "d", "r", "a", "f", "t", ">">>
RE_DRAFT_CLOSE == <<"<", "\\">> \o DRAFT_TAIL
RE_DRAFT_CLOSE2 == <<"<", "\\", "/", "-", "-", "D", "R", "A", "F", "T", "-", "-", ">">>

TextSegs ==
    {<<"x">>, IMG_A, IMG_B5, IMG_EMPTY, LINK_P, LINK_PD, <<"[", "[">>, <<"]", "]">>,
     DOC_DRAFT_OPEN, DOC_DRAFT_CLOSE, DOC_DRAFT_CLOSE2,
     DRAFT_OPEN, RE_DRAFT_CLOSE, RE_DRAFT_CLOSE2}

ImageSegs == {<<"x">>, IMG_A, IMG_B5, IMG_CW, DRAFT_OPEN, RE_DRAFT_CLOSE}

ExcerptChars == {<<"a">>, <<".">>, <<" ">>, <<"\n">>}

TransformAndExcerpt ==
    /\ rendered = NoneV
    /\ rendered' = Some(Render(body, SOURCE_IMG, WIKILINK_REPLACEMENTS, EXCERPT_MAX))
    /\ UNCHANGED <<body, config, runVars>>

NextText == TransformAndExcerpt

InitText ==
    /\ body \in Bodies(TextSegs, MaxSegs)
    /\ rendered = NoneV
    /\ SOURCE_IMG \in SUBSET {<<"a">>, <<"b">>}
    /\ WIKILINK_REPLACEMENTS \in {<<>>, (<<"p">> :> <<"z">>)}
    /\ EXCERPT_MAX = Some(500)
    /\ src = Notes
    /\ InitStores

SpecText == InitText /\ [][NextText]_vars

InitImages ==
    /\ body \in Bodies(ImageSegs, MaxMarkers)
    /\ rendered = NoneV
    /\ SOURCE_IMG \in SUBSET {<<"a">>, <<"b">>, <<"c">>}
    /\ WIKILINK_REPLACEMENTS = <<>>
    /\ EXCERPT_MAX = Some(500)
    /\ src = Notes
    /\ InitStores

SpecImages == InitImages /\ [][NextText]_vars

InitExcerpt ==
    /\ body \in Bodies(ExcerptChars, MaxLen)
    /\ rendered = NoneV
    /\ SOURCE_IMG = {}
    /\ WIKILINK_REPLACEMENTS = <<>>
    /\ EXCERPT_MAX \in {NoneV} \cup {Some(n) : n \in 1..MaxLimit}
    /\ src = Notes
    /\ InitStores

SpecExcerpt == InitExcerpt /\ [][NextText]_vars

(***************************************************************************)
(* Properties of the text pipeline                                         *)
(***************************************************************************)
\* t[a-1:b], as Python clamps a slice
Slice(t, a, b) == SubSeq(t, a, IF b < Len(t) THEN b ELSE Len(t))

Contains(t, sub) == \E i \in 1..(Len(t) + 1) : Slice(t, i, i + Len(sub) - 1) = sub

IsPrefix(p, t) == Len(p) <= Len(t) /\ SubSeq(t, 1, Len(p)) = p

\* the embed markers of t from position i on, in document order: the text of
\* each and the asset it names
RECURSIVE EmbedMarkers(_, _)
EmbedMarkers(t, i) ==
    LET starts == {k \in i..Len(t) : IMAGE_PATTERN_match(t, k).ok}
        s == Min(starts)
        m == IMAGE_PATTERN_match(t, s)
    IN IF starts = {} THEN <<>>
       ELSE <<[text |-> SubSeq(t, s, m.end), asset |-> strip(m.g1)]>>
            \o EmbedMarkers(t, m.end + 1)

Published == rendered # NoneV /\ ~rendered[1].err

\* C1: every embed marker whose asset is absent from the source asset store
\* stands in the output body with its original text, and when no marker of
\* the document resolves the title-image is the configured default.
C1_BrokenEmbedKeptVerbatim ==
    Published =>
        LET r == rendered[1]
            ms == EmbedMarkers(r.stripped, 1)
        IN /\ \A k \in 1..Len(ms) :
                  ms[k].asset \notin SOURCE_IMG => Contains(r.body, ms[k].text)
           /\ (\A k \in 1..Len(ms) : ms[k].asset \notin SOURCE_IMG)
                  => r.title_image = DEFAULT_TITLE_IMAGE

\* the last position of a documented closing delimiter that starts at j, or 0
DocCloseAt(t, j) ==
    IF Slice(t, j, j + 7) \in {DOC_DRAFT_CLOSE, DOC_DRAFT_CLOSE2} THEN j + 7 ELSE 0

\* C2: a body A + "<draft>" + S + "</draft>" + B (or with the closing
\* spelling "<\draft>"), S holding no closing delimiter and A and B no
\* delimiter at all, is stripped to exactly A + B.
C2_DraftSpanRemoved ==
    rendered # NoneV =>
        \A i, j \in 1..Len(body) :
            (/\ Slice(body, i, i + 6) = DOC_DRAFT_OPEN
             /\ j >= i + 7
             /\ DocCloseAt(body, j) # 0
             /\ \A k \in (i + 7)..(j - 1) : DocCloseAt(body, k) = 0
             /\ \A k \in (1..(i - 1)) \cup ((DocCloseAt(body, j) + 1)..Len(body)) :
                    body[k] # "<")
            => rendered[1].stripped
                   = SubSeq(body, 1, i - 1) \o SubSeq(body, DocCloseAt(body, j) + 1, Len(body))

\* C7: the wiki-link step turns [[Page|Display]] into the trimmed display
\* text and [[Page]] into the table's value for Page, or Page itself, and no
\* reference marker is left in its output.
C7_NoReferenceMarkerLeft ==
    Published =>
        LET t == rendered[1].imaged
            out == rendered[1].body
        IN /\ \A i \in 1..Len(out) : ~WIKILINK_PATTERN_match(out, i).ok
           /\ \A i \in 1..Len(t) :
                  LET m == WIKILINK_PATTERN_match(t, i)
                      page == strip(m.g1)
                      plain == IF m.has2 THEN strip(m.g2)
                               ELSE IF page \in DOMAIN WIKILINK_REPLACEMENTS
                                    THEN WIKILINK_REPLACEMENTS[page]
                               ELSE page
                  IN (/\ m.ok
                      /\ \A k \in (1..(i - 1)) \cup ((m.end + 1)..Len(t)) : t[k] # "["
                      /\ \A k \in (i + 2)..(m.end - 2) : t[k] # "[")
                     => out = SubSeq(t, 1, i - 1) \o plain \o SubSeq(t, m.end + 1, Len(t))

\* C8: the first-asset reference is the path of the first embed marker, in
\* document order, whose asset resolves, and none when no marker resolves; the
\* title-image is that reference or, when there is none, the default.
C8_FirstResolvedAssetWins ==
    Published =>
        LET r == rendered[1]
            ms == EmbedMarkers(r.stripped, 1)
            resolving == {k \in 1..Len(ms) : ms[k].asset \in SOURCE_IMG}
        IN IF resolving = {}
           THEN r.first_img = NoneV /\ r.title_image = DEFAULT_TITLE_IMAGE
           ELSE /\ r.first_img = Some(REL_IMG_DIR \o ms[Min(resolving)].asset)
                /\ r.title_image = REL_IMG_DIR \o ms[Min(resolving)].asset

\* a failed resolution, then a success, then a second success
C8_Witness ==
    /\ Published
    /\ LET ms == EmbedMarkers(rendered[1].stripped, 1)
       IN /\ Len(ms) >= 3
          /\ ms[1].asset \notin SOURCE_IMG
          /\ ms[2].asset \in SOURCE_IMG
          /\ ms[3].asset \in SOURCE_IMG
          /\ ms[3].asset # ms[2].asset
          /\ rendered[1].first_img = Some(REL_IMG_DIR \o ms[2].asset)

\* C6: a paragraph longer than the budget L is cut after the last period
\* among its first L characters or, without one, after L characters, trailing
\* whitespace removed; a paragraph of at most L characters is the excerpt as
\* it stands; the excerpt is a prefix of the paragraph no longer than L.
C6_ExcerptClippedAtSentence ==
    Published =>
        LET p == paragraph(rendered[1].body)
            e == rendered[1].excerpt
        IN IF EXCERPT_MAX = NoneV THEN e = p
           ELSE LET L == EXCERPT_MAX[1]
                    periods == {k \in 1..L : k <= Len(p) /\ p[k] = "."}
                IN /\ Len(p) <= L => e = p
                   /\ (Len(p) > L /\ periods # {}) => e = rstrip(SubSeq(p, 1, Max(periods)))
                   /\ (Len(p) > L /\ periods = {}) => e = rstrip(SubSeq(p, 1, L))
                   /\ IsPrefix(e, p)
                   /\ Len(e) <= L

\* a paragraph over the budget, cut at a period before the budget's end
C6_Witness ==
    /\ Published
    /\ EXCERPT_MAX # NoneV
    /\ LET p == paragraph(rendered[1].body)
           e == rendered[1].excerpt
       IN /\ Len(p) > EXCERPT_MAX[1]
          /\ e # <<>>
          /\ e[Len(e)] = "."
          /\ Len(e) < EXCERPT_MAX[1]
(***************************************************************************)
(* Properties of the publishing run                                        *)
(***************************************************************************)
\* the step is the call process_file(d) of main's loop
Calls(d) == pc \in {"running", "rerunning"} /\ d \in todo /\ todo' = todo \ {d}

IsCandidate(d) == src[d].kind = "blog"

\* the destination files that match the identity of d
Matches(d) == candidates(slug_of(d), dest)

LatestMtime(d) == Max({dest[f].mtime : f \in Matches(d)})

Reprocessed(d) ==
    /\ Calls(d)
    /\ IsCandidate(d)
    /\ Matches(d) # {}
    /\ src[d].mtime > LatestMtime(d)

\* C4 as stated: a document reprocessed because its source is newer than its
\* match overwrites that match with the new output, whatever the shape of
\* its date field (here for a match that is the document's own output).
C4_MatchOverwritten ==
    [][\A d \in DOMAIN src :
          Reprocessed(d) =>
              \A f \in most_recent_dest(slug_of(d), dest) :
                  dest[f].by = d =>
                      /\ dest'[f].mtime = clock
                      /\ dest'[f].content = NewPost(d, src[d].date, clock, SOURCE_IMG,
                                                    WIKILINK_REPLACEMENTS, EXCERPT_MAX)]_vars

\* the date portion of the normalised date: the day of a timestamp or a
\* date, the first word of a text, today for an absent date
DatePortion(raw_date, now) ==
    CASE raw_date.type \in {"datetime", "date"} -> DayStr(raw_date.day)
      [] raw_date.type = "str" /\ Inked(raw_date.text) # {} ->
             SubSeq(raw_date.text, Min(Inked(raw_date.text)),
                    RunEnd(raw_date.text, Min(Inked(raw_date.text)), Whitespace))
      [] OTHER -> DayStr(now \div TicksPerDay)

\* C4 amended: the document is reprocessed and its new output is written to
\* <date portion>-<identity>.md, every other destination file left as it
\* was; a match that is the document's own output is the file overwritten
\* when the date field is a timestamp, a date or a text.
C4_WrittenToDatedName ==
    [][\A d \in DOMAIN src :
          Reprocessed(d) =>
              LET name == DatePortion(src[d].date, clock) \o <<"-">> \o slug_of(d) \o MD
              IN /\ last'.outcome = "written"
                 /\ DOMAIN dest' = DOMAIN dest \cup {name}
                 /\ dest'[name].mtime = clock
                 /\ dest'[name].by = d
                 /\ dest'[name].content = NewPost(d, src[d].date, clock, SOURCE_IMG,
                                                  WIKILINK_REPLACEMENTS, EXCERPT_MAX)
                 /\ \A f \in DOMAIN dest \ {name} : dest'[f] = dest[f]
                 /\ \A f \in most_recent_dest(slug_of(d), dest) :
                        (dest[f].by = d /\ src[d].date.type # "none") => f = name]_vars

\* a document written again while an older output of it stays under another name
C4_Witness ==
    /\ last.outcome = "written"
    /\ last.had_match
    /\ \E f \in DOMAIN dest :
           /\ dest[f].by = last.doc
           /\ f # last.dest_filename[1]
           /\ dest[f].mtime < dest[last.dest_filename[1]].mtime

\* C5: a document that fails does not abort the run, and every other
\* candidate of the enumeration is still processed.
C5_FailureIsolated ==
    /\ pc # "aborted"
    /\ pc \notin {"running", "rerunning"} => \A d \in todo : ~IsCandidate(d)

\* the orders in which rglob may yield the documents of D
Orders(D) == {o \in [1..Cardinality(D) -> D] : \A i, j \in DOMAIN o : i # j => o[i] # o[j]}

Candidates == {d \in DOMAIN src : IsCandidate(d)}

RunFrom(order) ==
    main(order, [dest |-> dest, destImg |-> destImg, written |-> {}, skipped |-> {},
                 aborted |-> FALSE])

\* C9: from one destination state, any two orders of the candidate documents
\* process and skip the same documents and leave the same destination files.
C9_OrderIndependent ==
    pc \notin {"running", "rerunning"} =>
        \A o1, o2 \in Orders(Candidates) :
            /\ RunFrom(o1).dest = RunFrom(o2).dest
            /\ RunFrom(o1).written = RunFrom(o2).written
            /\ RunFrom(o1).skipped = RunFrom(o2).skipped

\* C10: a run started after a run that completed without error, no source
\* modified in between, writes no destination document and copies no asset.
C10_RerunIsNoOp ==
    [][pc = "rerunning" =>
          /\ dest' = dest
          /\ destImg' = destImg
          /\ last'.copied = {}
          /\ last'.outcome \in {"none", "skipped", "untagged"}]_vars
====
